---- MODULE Spec2Model ----
(***************************************************************************)
(* Kerala Lens: the session state machine of App, the history store, the   *)
(* camera lifecycle of CameraInput and the audio playback of               *)
(* TranslationCard / PhraseChip, as state machines.                        *)
(*                                                                         *)
(* JavaScript values: an optional value (a field that may be undefined,    *)
(* a nullable state slot) is None or Some(v).  A string field of a parsed  *)
(* collaborator response that is missing or empty is "" (both are falsy).  *)
(***************************************************************************)
EXTENDS Integers, Sequences, FiniteSets, TLC

\* ------------------------------------------------------------------------
\* Bounds of the model
\* ------------------------------------------------------------------------
MaxInflight == 2
MaxRequests == 2
MaxTime == 2
MaxRequestsHist == 52
MaxTimeHist == 2

\* ------------------------------------------------------------------------
\* Values
\* ------------------------------------------------------------------------
None == <<>>
Some(v) == <<v>>

\* AppState enum
IDLE == "IDLE"
PROCESSING == "PROCESSING"
SUCCESS == "SUCCESS"
ERROR == "ERROR"

\* names of the entries of LANGUAGES the model selects among
LANGUAGES == <<"English", "Malayalam">>
LanguageNames == {LANGUAGES[i] : i \in 1..Len(LANGUAGES)}

\* captured / imported frames (data URLs)
Images == {"img1"}

HistoryCap == 50

\* Parsed responses of the collaborator to AnalyzeImage: the complete
\* answer of scenario A with auxiliary content, and an answer with every
\* optional or falsy field, and one whose confidence is above 100.
RawFull ==
  [detectedText |-> "EXIT", translatedText |-> "purathekku",
   sourceLanguage |-> "English", targetLanguage |-> "Malayalam",
   confidenceScore |-> Some(92), recommendations |-> Some(<<"beach">>),
   travelTip |-> Some("tip"), essentialPhrases |-> Some(<<"hello">>)]
RawEmpty ==
  [detectedText |-> "", translatedText |-> "",
   sourceLanguage |-> "", targetLanguage |-> "",
   confidenceScore |-> None, recommendations |-> None,
   travelTip |-> None, essentialPhrases |-> None]
RawOutOfRange == [RawFull EXCEPT !.confidenceScore = Some(150)]
RawImageResponses == {RawFull, RawEmpty, RawOutOfRange}

\* Parsed responses of the collaborator to RetranslateText
RawTextResponses ==
  {[translatedText |-> "nikas", targetLanguage |-> "Hindi"],
   [translatedText |-> "exit2", targetLanguage |-> ""]}

\* An error is modelled by the set of the substrings that handleError looks
\* for which its text contains.
ErrorMarkers == {"403", "PERMISSION_DENIED", "429", "400"}
ErrorTexts == {{}, {"403"}, {"PERMISSION_DENIED"}, {"429"}, {"400"}, {"403", "429"}, {"429", "400"}}

MsgAccessDenied == "Access Denied (403). Please ensure the API Key is valid."
MsgRateLimit == "Too many requests. Please wait a moment and try again."
MsgBadRequest == "Bad Request. The image format might not be supported."
MsgGeneric == "Unable to process. Please check your internet connection."

VARIABLES
  appState, selectedImage, result, selectedLanguage, errorMsg, processingStage,
  history, storage, inflight, issued, pendingImports, now, appended

\* appState .. processingStage, history : the state of App (useState)
\* storage        : localStorage['kerala_lens_history'], None when the key is absent
\* inflight       : the translateImage / translateText calls awaiting the collaborator,
\*                  in the order they were issued
\* issued         : the number of translation requests issued so far
\* pendingImports : the files chosen in the gallery whose Image is still loading,
\*                  each with the language its onImageSelected closure captured
\* now            : Date.now()
\* appended       : the items appended to the history since it was last empty,
\*                  oldest first (a log kept for stating the history properties)
appVars == <<appState, selectedImage, result, selectedLanguage, errorMsg,
             processingStage, history, storage, inflight, issued, pendingImports,
             now, appended>>

\* CameraInput (one mounted instance)
VARIABLES
  isMounted, docHidden, streamRef, live, acquired, starts, timers,
  permissionError, permissionErrorMsg, cameraActive, srcObject, delivered

\* isMounted       : isMountedRef.current
\* docHidden       : document.hidden
\* streamRef       : streamRef.current, None or Some(stream)
\* live            : the acquired streams whose tracks have not been stopped
\* acquired        : the number of streams getUserMedia has delivered (streams are
\*                   numbered in the order of delivery)
\* starts          : the startCamera invocations suspended in an await of
\*                   getUserMedia, each with the strategy it is trying and lastError
\* timers          : the pending setTimeout(startCamera, 100) of the restart button
\* srcObject       : videoRef.current.srcObject (the <video> is rendered while
\*                   the component is mounted and permissionError is false)
\* delivered       : per delivered stream, the strategy whose getUserMedia
\*                   delivered it and whether startCamera installed it (a log
\*                   kept for stating the camera properties)
camVars == <<isMounted, docHidden, streamRef, live, acquired, starts, timers,
             permissionError, permissionErrorMsg, cameraActive, srcObject, delivered>>

\* TranslationCard with its PhraseChips (one mounted instance) and the audio output
VARIABLES
  ctxState, src, cardMounted, isPlaying, pcmData, isGeneratingAudio, cardError,
  sourceNodeRef, audioPromiseRef, prefetch, plays, chips, ttsCache, ctxCreated,
  textLen

\* ctxState          : sharedAudioContext: "none" before the first getAudioContext,
\*                     then "suspended" or "running"
\* src               : the AudioBufferSourceNodes created so far, each with its owner
\*                     (the card or a chip) and st: "playing", "ending" (stopped or run
\*                     out, its ended event not yet dispatched) or "done"
\* isPlaying .. cardError, sourceNodeRef, audioPromiseRef : state and refs of the card
\*                     (audioPromiseRef: whether the ref holds the prefetch promise)
\* prefetch          : the promise of fetchAudio: st is "first" / "second" (awaiting
\*                     generateSpeech of the optimised / of the unmodified text),
\*                     "resolved" or "rejected"; live is the effect's isMounted flag
\* plays             : the suspended invocations of handlePlayAudio / playAudioData
\* chips             : per PhraseChip its isPlaying, isLoading, sourceRef and the
\*                     await its playPhrase is suspended in
\*                     requests counts the generateSpeech calls fetchAudio has made
\* ttsCache          : the keys of the module-level cache of generateSpeech
\* ctxCreated        : the number of AudioContexts created so far
\* textLen           : result.translatedText.length
audVars == <<ctxState, src, cardMounted, isPlaying, pcmData, isGeneratingAudio,
             cardError, sourceNodeRef, audioPromiseRef, prefetch, plays, chips,
             ttsCache, ctxCreated, textLen>>

\* decodePcmAudio applied to one buffer
VARIABLES buffer, decoded

\* buffer  : the bytes of the ArrayBuffer handed to decodePcmAudio
\* decoded : None before the call, then its outcome
decVars == <<buffer, decoded>>

\* generateSpeech and the module-level cache it keeps
VARIABLES cache, calls

\* cache : ttsCache of services/gemini.ts, the entries [key, data] it holds
\* calls : the invocations of generateSpeech made so far, each with its
\*         arguments, its position (awaiting the collaborator, awaiting the
\*         500 ms timer, resolved, rejected), the number of collaborator calls
\*         made for it, and the bytes it returned
spVars == <<cache, calls>>

\* the raster CameraInput draws a frame or a chosen file to
VARIABLES source, captured, imported

\* source   : the width and height of the video frame / of the decoded file
\* captured : None, then the finalWidth and finalHeight of captureFrame
\* imported : None, then the finalWidth and finalHeight of the file's onload
dimVars == <<source, captured, imported>>

vars == <<appVars, camVars, audVars, decVars, spVars, dimVars>>

\* ------------------------------------------------------------------------
\* Pure helpers
\* ------------------------------------------------------------------------
Take(s, n) == SubSeq(s, 1, IF Len(s) < n THEN Len(s) ELSE n)

Reverse(s) == [i \in 1..Len(s) |-> s[Len(s) + 1 - i]]

\* a || d for a string
OrStr(a, d) == IF a = "" THEN d ELSE a

\* a || d for an optional number (undefined and 0 are falsy)
OrNum(a, d) == IF a = None \/ a = Some(0) THEN d ELSE a[1]

\* a || [] for an optional array
OrList(a) == IF a = None THEN <<>> ELSE a[1]

\* services/gemini.ts translateImage: the mapping of the parsed response
translateImage(raw, targetLanguage) ==
  [detectedText |-> OrStr(raw.detectedText, "No text detected"),
   translatedText |-> OrStr(raw.translatedText, "Translation unavailable"),
   sourceLanguage |-> OrStr(raw.sourceLanguage, "Unknown"),
   targetLanguage |-> OrStr(raw.targetLanguage, targetLanguage),
   confidenceScore |-> Some(OrNum(raw.confidenceScore, 0)),
   recommendations |-> Some(OrList(raw.recommendations)),
   travelTip |-> raw.travelTip,
   essentialPhrases |-> Some(OrList(raw.essentialPhrases))]

\* services/gemini.ts translateText: the result built from the parsed response
translateText(text, currentSourceLanguage, targetLanguage, originalConfidence, existingRecommendations, existingEssentialPhrases, raw) ==
  [detectedText |-> text,
   translatedText |-> raw.translatedText,
   sourceLanguage |-> currentSourceLanguage,
   targetLanguage |-> OrStr(raw.targetLanguage, targetLanguage),
   confidenceScore |-> Some(originalConfidence),
   recommendations |-> existingRecommendations,
   travelTip |-> None,
   essentialPhrases |-> existingEssentialPhrases]

\* The fields of a TranslationResult
ResultFields == {"detectedText", "translatedText", "sourceLanguage", "targetLanguage",
                 "confidenceScore", "recommendations", "travelTip", "essentialPhrases"}

\* addToHistory: the new HistoryItem  {...translation, id, timestamp, imageUrl: undefined}
newItem(translation, t) ==
  [k \in ResultFields \cup {"id", "timestamp", "imageUrl"} |->
     IF k = "id" THEN ToString(t)
     ELSE IF k = "timestamp" THEN t
     ELSE IF k = "imageUrl" THEN None
     ELSE translation[k]]

\* addToHistory with the new item put last: [...prev, newItem].slice(0, 50)
addToHistoryAtEnd(prev, translation, t) == Take(prev \o <<newItem(translation, t)>>, HistoryCap)

\* addToHistory with the cut one too far: [newItem, ...prev].slice(0, 51)
addToHistoryOffByOne(prev, translation, t) ==
  Take(<<newItem(translation, t)>> \o prev, HistoryCap + 1)

\* addToHistory: [newItem, ...prev].slice(0, 50)
addToHistory(prev, translation, t) == Take(<<newItem(translation, t)>> \o prev, HistoryCap)

\* the save effect storing the items whole: history.map(item => item)
stripNothing(item) == item

\* save effect: history.map(({ imageUrl, ...rest }) => rest)
stripImage(item) == [k \in (DOMAIN item) \ {"imageUrl"} |-> item[k]]
historyToSave(h) == [i \in 1..Len(h) |-> stripImage(h[i])]

\* the save effect returning at its historyLoaded test
SaveEffectNeverLoaded(h, st, writeOK) == st

\* save effect: localStorage.setItem either stores the list (writeOK) or throws
\* (the exception is caught and logged) and leaves the stored value as it was
SaveEffect(h, st, writeOK) == IF writeOK THEN Some(historyToSave(h)) ELSE st

\* load effect: JSON.parse(saved); reading the absent imageUrl of a loaded
\* item yields undefined
loadItem(p) == [k \in (DOMAIN p) \cup {"imageUrl"} |-> IF k \in DOMAIN p THEN p[k] ELSE None]
loadHistory(st) == IF st = None THEN <<>> ELSE [i \in 1..Len(st[1]) |-> loadItem(st[1][i])]

\* handleError testing "429" before "403" and "PERMISSION_DENIED"
handleErrorMsgRateLimitFirst(err) ==
  IF "429" \in err THEN MsgRateLimit
  ELSE IF "403" \in err \/ "PERMISSION_DENIED" \in err THEN MsgAccessDenied
  ELSE IF "400" \in err THEN MsgBadRequest
  ELSE MsgGeneric

\* handleError: the message chosen for an error text
handleErrorMsg(err) ==
  IF "403" \in err \/ "PERMISSION_DENIED" \in err THEN MsgAccessDenied
  ELSE IF "429" \in err THEN MsgRateLimit
  ELSE IF "400" \in err THEN MsgBadRequest
  ELSE MsgGeneric

\* CameraInput is rendered, with its canvas, exactly while the session is Idle;
\* when it is unmounted canvasRef.current is null and the onload handler of a
\* file still being decoded returns without calling onImageSelected.
ImportsAfter(nextState, imports) == IF nextState = IDLE THEN imports ELSE {}

RemoveAt(s, i) == SubSeq(s, 1, i - 1) \o SubSeq(s, i + 1, Len(s))

\* ------------------------------------------------------------------------
\* App: initial state (after the mount effects: history loaded, then saved)
\* ------------------------------------------------------------------------
SavedItem == stripImage(newItem(translateImage(RawFull, "Malayalam"), 0))

InitialStorages == {None, Some(<<SavedItem>>)}

InitApp(storages) ==
  /\ appState = IDLE
  /\ selectedImage = None
  /\ result = None
  /\ selectedLanguage = LANGUAGES[2]
  /\ errorMsg = None
  /\ processingStage = "reading"
  /\ \E st \in storages :
       /\ history = loadHistory(st)
       /\ \E writeOK \in BOOLEAN : storage = SaveEffect(loadHistory(st), st, writeOK)
       /\ appended = Reverse(loadHistory(st))
  /\ inflight = <<>>
  /\ issued = 0
  /\ pendingImports = {}
  /\ now = 1

\* ------------------------------------------------------------------------
\* App: operations
\* ------------------------------------------------------------------------
\* handleImageSelected up to the await of translateImage
handleImageSelected(base64, targetLang, maxInflight, maxRequests) ==
  /\ Len(inflight) < maxInflight
  /\ issued < maxRequests
  /\ selectedImage' = Some(base64)
  /\ appState' = PROCESSING
  /\ processingStage' = "reading"
  /\ errorMsg' = None
  /\ inflight' = Append(inflight, [kind |-> "image", seq |-> issued + 1,
                                   base64Image |-> base64, targetLanguage |-> targetLang])
  /\ issued' = issued + 1
  /\ pendingImports' = ImportsAfter(PROCESSING, pendingImports)
  /\ UNCHANGED <<result, history, storage, now, appended>>

\* handleReTranslation sending the translated text instead of the detected text
handleReTranslationOfTranslated(langName, maxInflight, maxRequests) ==
  /\ result # None
  /\ Len(inflight) < maxInflight
  /\ issued < maxRequests
  /\ appState' = PROCESSING
  /\ processingStage' = "translating"
  /\ errorMsg' = None
  /\ inflight' = Append(inflight, [kind |-> "text", seq |-> issued + 1,
                                   text |-> result[1].translatedText,
                                   currentSourceLanguage |-> result[1].sourceLanguage,
                                   targetLanguage |-> langName,
                                   originalConfidence |-> OrNum(result[1].confidenceScore, 0),
                                   existingRecommendations |-> None,
                                   existingEssentialPhrases |-> None])
  /\ issued' = issued + 1
  /\ pendingImports' = ImportsAfter(PROCESSING, pendingImports)
  /\ UNCHANGED <<selectedImage, result, history, storage, now, appended>>

\* handleReTranslation up to the await of translateText; the call passes four
\* arguments, so existingRecommendations and existingEssentialPhrases are undefined
handleReTranslation(langName, maxInflight, maxRequests) ==
  /\ result # None
  /\ Len(inflight) < maxInflight
  /\ issued < maxRequests
  /\ appState' = PROCESSING
  /\ processingStage' = "translating"
  /\ errorMsg' = None
  /\ inflight' = Append(inflight, [kind |-> "text", seq |-> issued + 1,
                                   text |-> result[1].detectedText,
                                   currentSourceLanguage |-> result[1].sourceLanguage,
                                   targetLanguage |-> langName,
                                   originalConfidence |-> OrNum(result[1].confidenceScore, 0),
                                   existingRecommendations |-> None,
                                   existingEssentialPhrases |-> None])
  /\ issued' = issued + 1
  /\ pendingImports' = ImportsAfter(PROCESSING, pendingImports)
  /\ UNCHANGED <<selectedImage, result, history, storage, now, appended>>

\* the continuation of handleImageSelected / handleReTranslation after a
\* successful await: setResult, addToHistory, setAppState(SUCCESS), and the
\* save effect that runs because the history changed
Succeed(i, translation, writeOK) ==
  /\ result' = Some(translation)
  /\ history' = addToHistory(history, translation, now)
  /\ appended' = Append(appended, newItem(translation, now))
  /\ storage' = SaveEffect(addToHistory(history, translation, now), storage, writeOK)
  /\ appState' = SUCCESS
  /\ inflight' = RemoveAt(inflight, i)
  /\ pendingImports' = ImportsAfter(SUCCESS, pendingImports)
  /\ UNCHANGED <<selectedImage, selectedLanguage, errorMsg, processingStage, issued, now>>

\* translateImage resolves
translateImageResolve(i, raw, writeOK) ==
  /\ i \in 1..Len(inflight)
  /\ inflight[i].kind = "image"
  /\ Succeed(i, translateImage(raw, inflight[i].targetLanguage), writeOK)

\* translateText resolves
translateTextResolve(i, raw, writeOK) ==
  /\ i \in 1..Len(inflight)
  /\ inflight[i].kind = "text"
  /\ Succeed(i, translateText(inflight[i].text, inflight[i].currentSourceLanguage,
                              inflight[i].targetLanguage, inflight[i].originalConfidence,
                              inflight[i].existingRecommendations,
                              inflight[i].existingEssentialPhrases, raw), writeOK)

\* handleError setting the state without a message
handleErrorWithoutMessage(i, err) ==
  /\ i \in 1..Len(inflight)
  /\ appState' = ERROR
  /\ inflight' = RemoveAt(inflight, i)
  /\ pendingImports' = ImportsAfter(ERROR, pendingImports)
  /\ UNCHANGED <<selectedImage, result, selectedLanguage, errorMsg, processingStage,
                 history, storage, issued, now, appended>>

\* translateImage / translateText rejects: catch -> handleError(error)
handleError(i, err) ==
  /\ i \in 1..Len(inflight)
  /\ appState' = ERROR
  /\ errorMsg' = Some(handleErrorMsg(err))
  /\ inflight' = RemoveAt(inflight, i)
  /\ pendingImports' = ImportsAfter(ERROR, pendingImports)
  /\ UNCHANGED <<selectedImage, result, selectedLanguage, processingStage, history,
                 storage, issued, now, appended>>

\* resetApp without setSelectedImage(null)
resetAppKeepingImage ==
  /\ result' = None
  /\ appState' = IDLE
  /\ errorMsg' = None
  /\ UNCHANGED <<selectedImage, selectedLanguage, processingStage, history, storage,
                 inflight, issued, pendingImports, now, appended>>

\* resetApp without setErrorMsg(null)
resetAppKeepingError ==
  /\ selectedImage' = None
  /\ result' = None
  /\ appState' = IDLE
  /\ UNCHANGED <<errorMsg, selectedLanguage, processingStage, history, storage,
                 inflight, issued, pendingImports, now, appended>>

\* the header button, 'Try Again' and 'Translate Another'
resetApp ==
  /\ selectedImage' = None
  /\ result' = None
  /\ appState' = IDLE
  /\ errorMsg' = None
  /\ UNCHANGED <<selectedLanguage, processingStage, history, storage, inflight, issued,
                 pendingImports, now, appended>>

\* the header's history button
toggleHistory ==
  IF appState # IDLE THEN resetApp ELSE UNCHANGED appVars

\* handleHistorySelect also calling addToHistory(item)
handleHistorySelectAppending(i) ==
  /\ appState = IDLE
  /\ i \in 1..Len(history)
  /\ result' = Some(history[i])
  /\ selectedImage' = None
  /\ appState' = SUCCESS
  /\ history' = addToHistory(history, history[i], now)
  /\ appended' = Append(appended, newItem(history[i], now))
  /\ pendingImports' = ImportsAfter(SUCCESS, pendingImports)
  /\ UNCHANGED <<selectedLanguage, errorMsg, processingStage, storage, inflight,
                 issued, now>>

\* HistoryList onSelect: shown while Idle
handleHistorySelect(i) ==
  /\ appState = IDLE
  /\ i \in 1..Len(history)
  /\ result' = Some(history[i])
  /\ selectedImage' = None
  /\ appState' = SUCCESS
  /\ pendingImports' = ImportsAfter(SUCCESS, pendingImports)
  /\ UNCHANGED <<selectedLanguage, errorMsg, processingStage, history, storage, inflight,
                 issued, now, appended>>

\* HistoryList onClear (offered while Idle with a non-empty list): setHistory([]),
\* removeItem, then the save effect
clearHistory(writeOK) ==
  /\ appState = IDLE
  /\ Len(history) > 0
  /\ history' = <<>>
  /\ appended' = <<>>
  /\ storage' = SaveEffect(<<>>, None, writeOK)
  /\ UNCHANGED <<appState, selectedImage, result, selectedLanguage, errorMsg,
                 processingStage, inflight, issued, pendingImports, now>>

\* LanguageSelector onSelect: rendered unless the session is in Error
onSelect(lang, maxInflight, maxRequests) ==
  /\ appState # ERROR
  /\ IF result # None /\ appState = SUCCESS
       THEN /\ selectedLanguage' = lang
            /\ handleReTranslation(lang, maxInflight, maxRequests)
     ELSE IF selectedImage # None /\ appState \in {SUCCESS, IDLE}
       THEN /\ selectedLanguage' = lang
            /\ handleImageSelected(selectedImage[1], lang, maxInflight, maxRequests)
     ELSE /\ selectedLanguage' = lang
          /\ UNCHANGED <<appState, selectedImage, result, errorMsg, processingStage,
                         history, storage, inflight, issued, pendingImports, now, appended>>

\* CameraInput captureFrame -> onImageSelected(base64): the shutter is rendered
\* while the session is Idle
captureFrame(img, maxInflight, maxRequests) ==
  /\ appState = IDLE
  /\ handleImageSelected(img, selectedLanguage, maxInflight, maxRequests)
  /\ UNCHANGED selectedLanguage

\* CameraInput handleFileChange: a file is chosen and its Image starts loading;
\* the onload closure keeps the onImageSelected of this render
handleFileChange(img) ==
  /\ appState = IDLE
  /\ pendingImports' = pendingImports \cup {[image |-> img, lang |-> selectedLanguage]}
  /\ UNCHANGED <<appState, selectedImage, result, selectedLanguage, errorMsg,
                 processingStage, history, storage, inflight, issued, now, appended>>

\* img.onload of a chosen file: onImageSelected(base64) of the render that
\* handled the file choice
imgOnload(p, maxInflight, maxRequests) ==
  /\ p \in pendingImports
  /\ handleImageSelected(p.image, p.lang, maxInflight, maxRequests)
  /\ UNCHANGED selectedLanguage

\* the clock advances
Tick(maxTime) ==
  /\ now < maxTime
  /\ now' = now + 1
  /\ UNCHANGED <<appState, selectedImage, result, selectedLanguage, errorMsg,
                 processingStage, history, storage, inflight, issued, pendingImports,
                 appended>>

\* ------------------------------------------------------------------------
\* CameraInput
\* ------------------------------------------------------------------------
MaxStarts == 2
MaxStreams == 2
MaxTimers == 1

\* the names of the errors getUserMedia rejects with
MediaErrors == {"NotAllowedError", "NotFoundError", "NotReadableError"}

\* the state after the mount effects: isMountedRef set, startCamera() called and
\* suspended in the getUserMedia of strategy 1
InitCamera ==
  /\ isMounted = TRUE
  /\ docHidden = FALSE
  /\ streamRef = None
  /\ live = {}
  /\ acquired = 0
  /\ starts = <<[strategy |-> 1, lastError |-> None]>>
  /\ timers = 0
  /\ permissionError = FALSE
  /\ permissionErrorMsg = ""
  /\ cameraActive = FALSE
  /\ srcObject = None
  /\ delivered = <<>>

\* stopCamera: the tracks of the held stream are stopped and the ref cleared
liveAfterStop == IF streamRef = None THEN live ELSE live \ {streamRef[1]}

stopCamera ==
  /\ live' = liveAfterStop
  /\ streamRef' = None
  /\ cameraActive' = IF isMounted THEN FALSE ELSE cameraActive

\* startCamera up to its first await: stopCamera(), the mount check, the reset
\* of the error state and the getUserMedia of strategy 1
startCamera ==
  /\ stopCamera
  /\ IF isMounted
       THEN /\ Len(starts) < MaxStarts
            /\ permissionError' = FALSE
            /\ permissionErrorMsg' = ""
            /\ starts' = Append(starts, [strategy |-> 1, lastError |-> None])
       ELSE UNCHANGED <<permissionError, permissionErrorMsg, starts>>
  /\ UNCHANGED <<isMounted, acquired, srcObject, delivered>>

\* the visibilitychange listener (installed while mounted)
handleVisibilityChange ==
  /\ isMounted
  /\ docHidden' = ~docHidden
  /\ timers' = timers
  /\ IF ~docHidden
       THEN /\ stopCamera
            /\ UNCHANGED <<isMounted, acquired, starts, permissionError,
                           permissionErrorMsg, srcObject, delivered>>
       ELSE startCamera

\* the restart button: stopCamera(); setTimeout(startCamera, 100)
restartClick ==
  /\ isMounted
  /\ timers < MaxTimers
  /\ stopCamera
  /\ timers' = timers + 1
  /\ UNCHANGED <<isMounted, docHidden, acquired, starts, permissionError,
                 permissionErrorMsg, srcObject, delivered>>

\* the restart timeout fires: startCamera()
restartTimeout ==
  /\ timers > 0
  /\ timers' = timers - 1
  /\ startCamera
  /\ UNCHANGED docHidden

\* getUserMediaResolve without the check of isMountedRef after the awaits
getUserMediaResolveNoMountCheck(k) ==
  /\ k \in 1..Len(starts)
  /\ acquired < MaxStreams
  /\ acquired' = acquired + 1
  /\ delivered' = Append(delivered, [strategy |-> starts[k].strategy,
                                     installed |-> TRUE])
  /\ starts' = RemoveAt(starts, k)
  /\ streamRef' = Some(acquired + 1)
  /\ live' = live \cup {acquired + 1}
  /\ srcObject' = IF permissionError \/ ~isMounted THEN srcObject ELSE Some(acquired + 1)
  /\ UNCHANGED <<isMounted, docHidden, timers, permissionError, permissionErrorMsg,
                 cameraActive>>

\* getUserMedia resolves for the k-th suspended startCamera: the code after the
\* strategies runs with mediaStream set
getUserMediaResolve(k) ==
  /\ k \in 1..Len(starts)
  /\ acquired < MaxStreams
  /\ acquired' = acquired + 1
  /\ delivered' = Append(delivered, [strategy |-> starts[k].strategy,
                                     installed |-> isMounted])
  /\ starts' = RemoveAt(starts, k)
  /\ IF ~isMounted
       THEN \* mediaStream.getTracks().forEach(t => t.stop()); return
            UNCHANGED <<streamRef, live, srcObject>>
       ELSE /\ streamRef' = Some(acquired + 1)
            /\ live' = live \cup {acquired + 1}
            /\ srcObject' = IF permissionError THEN srcObject ELSE Some(acquired + 1)
  /\ UNCHANGED <<isMounted, docHidden, timers, permissionError, permissionErrorMsg,
                 cameraActive>>

\* the message startCamera's catch chooses for an error name
cameraErrorMsg(name) ==
  IF name = "NotAllowedError" \/ name = "PermissionDeniedError"
    THEN "Permission denied. Please allow camera access in your browser settings."
  ELSE IF name = "NotFoundError" THEN "No camera device found."
  ELSE "Camera unavailable."

\* getUserMediaReject giving up after the second strategy
getUserMediaRejectTwoStrategies(k, err) ==
  /\ k \in 1..Len(starts)
  /\ IF starts[k].strategy < 2
       THEN /\ starts' = [starts EXCEPT ![k] = [strategy |-> starts[k].strategy + 1,
                                                lastError |-> Some(err)]]
            /\ UNCHANGED <<permissionError, permissionErrorMsg, cameraActive, srcObject>>
       ELSE /\ starts' = RemoveAt(starts, k)
            /\ IF isMounted
                 THEN /\ permissionError' = TRUE
                      /\ permissionErrorMsg' = cameraErrorMsg(err)
                      /\ cameraActive' = FALSE
                      /\ srcObject' = None
                 ELSE UNCHANGED <<permissionError, permissionErrorMsg, cameraActive,
                                  srcObject>>
  /\ UNCHANGED <<isMounted, docHidden, streamRef, live, acquired, timers, delivered>>

\* getUserMedia rejects for the k-th suspended startCamera: the next strategy is
\* tried, or after the third the error is thrown to the catch
getUserMediaReject(k, err) ==
  /\ k \in 1..Len(starts)
  /\ IF starts[k].strategy < 3
       THEN /\ starts' = [starts EXCEPT ![k] = [strategy |-> starts[k].strategy + 1,
                                                lastError |-> Some(err)]]
            /\ UNCHANGED <<permissionError, permissionErrorMsg, cameraActive, srcObject>>
       ELSE /\ starts' = RemoveAt(starts, k)
            /\ IF isMounted
                 THEN /\ permissionError' = TRUE
                      /\ permissionErrorMsg' = cameraErrorMsg(err)
                      /\ cameraActive' = FALSE
                      /\ srcObject' = None
                 ELSE UNCHANGED <<permissionError, permissionErrorMsg, cameraActive,
                                  srcObject>>
  /\ UNCHANGED <<isMounted, docHidden, streamRef, live, acquired, timers, delivered>>

\* video.onloadeddata: the first frame of the attached, running stream is there
onloadeddata ==
  /\ srcObject # None
  /\ srcObject[1] \in live
  /\ isMounted
  /\ ~cameraActive
  /\ cameraActive' = TRUE
  /\ UNCHANGED <<isMounted, docHidden, streamRef, live, acquired, starts, timers,
                 permissionError, permissionErrorMsg, srcObject, delivered>>

\* the component is unmounted: the effect cleanups run in order (isMountedRef
\* cleared, then stopCamera and removal of the listener)
unmount ==
  /\ isMounted
  /\ isMounted' = FALSE
  /\ live' = liveAfterStop
  /\ streamRef' = None
  /\ srcObject' = None
  /\ UNCHANGED <<docHidden, acquired, starts, timers, permissionError,
                 permissionErrorMsg, cameraActive, delivered>>

\* ------------------------------------------------------------------------
\* TranslationCard, PhraseChip and the shared audio context
\* ------------------------------------------------------------------------
MaxSources == 2
MaxPlays == 2

\* the phrase chips rendered by the card, and the card as the owner of a source
Chips == {1, 2}
CardOwner == 0

\* the text of the result, its form optimised for speech, and the chips' texts
PlainText == "plain"
SpeechText == "speech"
PhraseText(c) == IF c = 1 THEN "phrase1" ELSE "phrase2"

\* the state a newly created AudioContext can be in
NewCtxStates == {"suspended", "running"}

\* the length above which the prefetch is skipped
MaxPrefetchLen == 500

\* the lengths of result.translatedText considered
TextLens == {0, 1, MaxPrefetchLen, MaxPrefetchLen + 1}

\* fetchAudio skipping the prefetch from 500 characters on
fetchAudioFromCeiling(len) ==
  IF len = 0 \/ len >= MaxPrefetchLen
    THEN [st |-> "rejected", live |-> TRUE, data |-> None, requests |-> 0]
    ELSE [st |-> "first", live |-> TRUE, data |-> None, requests |-> 1]

\* fetchAudio up to its first await: the promise rejects at once when the text
\* is empty or longer than 500 characters, otherwise generateSpeech of the
\* optimised text is awaited
fetchAudio(len) ==
  IF len = 0 \/ len > MaxPrefetchLen
    THEN [st |-> "rejected", live |-> TRUE, data |-> None, requests |-> 0]
    ELSE [st |-> "first", live |-> TRUE, data |-> None, requests |-> 1]

IdleChip == [isPlaying |-> FALSE, isLoading |-> FALSE, sourceRef |-> None, pc |-> "idle"]

\* the state after the card is mounted with a result: the prefetch effect has
\* called fetchAudio, which either awaits generateSpeech of the optimised text
\* or has rejected at once (text empty or longer than 500 characters)
InitAudio ==
  /\ ctxState = "none"
  /\ src = <<>>
  /\ cardMounted = TRUE
  /\ isPlaying = FALSE
  /\ pcmData = None
  /\ isGeneratingAudio = FALSE
  /\ cardError = None
  /\ sourceNodeRef = None
  /\ audioPromiseRef = TRUE
  /\ textLen \in TextLens
  /\ prefetch = fetchAudio(textLen)
  /\ plays = <<>>
  /\ chips = [c \in Chips |-> IdleChip]
  /\ ttsCache = {}
  /\ ctxCreated = 0

\* source.stop() on the node a ref holds: a playing node stops, its ended event
\* is dispatched later
Stopped(S, ref) ==
  IF ref = None THEN S
  ELSE [S EXCEPT ![ref[1]].st = IF @ = "playing" THEN "ending" ELSE @]

\* ctx.createBufferSource() ... source.start()
Started(S, owner) == Append(S, [owner |-> owner, st |-> "playing"])

\* getAudioContext: the shared context, created when there is none
getAudioContext(newState) == IF ctxState = "none" THEN newState ELSE ctxState

\* getAudioContext creating a context on every call
contextsAfterGetPerCall(n) == n + 1

\* getAudioContext: the number of contexts created so far, after the call
contextsAfterGet(n) == IF ctxState = "none" THEN n + 1 ELSE n

\* playAudioData after the context is running: decode, create and start the
\* source, setIsPlaying(true); a failure (decodeOK false) is caught and shown.
\* S, ref and err are the node list, sourceNodeRef and error at that point, rest
\* the other suspended invocations; generating tells whether handlePlayAudio's finally follows.
playNow(S, ref, err, rest, generating, decodeOK) ==
  /\ IF decodeOK
       THEN /\ Len(S) < MaxSources
            /\ src' = Started(S, CardOwner)
            /\ sourceNodeRef' = Some(Len(S) + 1)
            /\ isPlaying' = TRUE
            /\ cardError' = err
       ELSE /\ src' = S
            /\ sourceNodeRef' = ref
            /\ cardError' = Some("Audio playback failed.")
            /\ isPlaying' = FALSE
  /\ plays' = rest
  /\ isGeneratingAudio' = IF generating THEN FALSE ELSE isGeneratingAudio

\* playAudioData(data) from its start: stopPlayback(), getAudioContext(), then
\* either the await of ctx.resume() or the playback
playAudioData(data, err, rest, generating, newState, decodeOK) ==
  /\ ctxState' = getAudioContext(newState)
  /\ ctxCreated' = contextsAfterGet(ctxCreated)
  /\ IF getAudioContext(newState) = "suspended"
       THEN /\ src' = Stopped(src, sourceNodeRef)
            /\ sourceNodeRef' = None
            /\ isPlaying' = FALSE
            /\ plays' = Append(rest, [pc |-> "resume", data |-> data,
                                     generating |-> generating])
            /\ cardError' = err
            /\ UNCHANGED isGeneratingAudio
       ELSE playNow(Stopped(src, sourceNodeRef), None, err, rest, generating, decodeOK)

\* handlePlayAudio issuing a fresh request although a prefetch is stored
handlePlayAudioAlwaysFresh(newState, decodeOK) ==
  /\ cardMounted
  /\ ~isGeneratingAudio
  /\ Len(plays) < MaxPlays
  /\ IF isPlaying
       THEN \* stopPlayback(); return
            /\ src' = Stopped(src, sourceNodeRef)
            /\ sourceNodeRef' = None
            /\ isPlaying' = FALSE
            /\ cardError' = None
            /\ UNCHANGED <<ctxState, isGeneratingAudio, plays, ttsCache, ctxCreated>>
     ELSE IF pcmData # None
       THEN \* await playAudioData(pcmData); return
            /\ playAudioData(pcmData[1], None, plays, FALSE, newState, decodeOK)
            /\ UNCHANGED ttsCache
     ELSE \* setIsGeneratingAudio(true); await the prefetch or a fresh request
          /\ isGeneratingAudio' = TRUE
          /\ cardError' = None
          /\ plays' = Append(plays,
               [pc |-> "fresh", data |-> None, generating |-> TRUE])
          /\ UNCHANGED <<ctxState, src, sourceNodeRef, isPlaying, ttsCache, ctxCreated>>
  /\ UNCHANGED <<cardMounted, pcmData, audioPromiseRef, prefetch, chips, textLen>>

\* the Pronounce button (disabled while isGeneratingAudio): handlePlayAudio up to
\* its first await
handlePlayAudio(newState, decodeOK) ==
  /\ cardMounted
  /\ ~isGeneratingAudio
  /\ Len(plays) < MaxPlays
  /\ IF isPlaying
       THEN \* stopPlayback(); return
            /\ src' = Stopped(src, sourceNodeRef)
            /\ sourceNodeRef' = None
            /\ isPlaying' = FALSE
            /\ cardError' = None
            /\ UNCHANGED <<ctxState, isGeneratingAudio, plays, ttsCache, ctxCreated>>
     ELSE IF pcmData # None
       THEN \* await playAudioData(pcmData); return
            /\ playAudioData(pcmData[1], None, plays, FALSE, newState, decodeOK)
            /\ UNCHANGED ttsCache
     ELSE \* setIsGeneratingAudio(true); await the prefetch or a fresh request
          /\ isGeneratingAudio' = TRUE
          /\ cardError' = None
          /\ plays' = Append(plays,
               IF audioPromiseRef
                 THEN [pc |-> "prefetch", data |-> None, generating |-> TRUE]
                 ELSE [pc |-> "fresh", data |-> None, generating |-> TRUE])
          /\ UNCHANGED <<ctxState, src, sourceNodeRef, isPlaying, ttsCache, ctxCreated>>
  /\ UNCHANGED <<cardMounted, pcmData, audioPromiseRef, prefetch, chips, textLen>>

\* prefetchSettle showing the failure of the prefetch to the user
prefetchSettleSurfacing(ok) ==
  /\ prefetch.st \in {"first", "second"}
  /\ IF ok
       THEN /\ prefetch' = [prefetch EXCEPT !.st = "resolved",
                              !.data = Some(IF prefetch.st = "first" THEN SpeechText
                                            ELSE PlainText)]
            /\ ttsCache' = ttsCache \cup {IF prefetch.st = "first" THEN SpeechText
                                         ELSE PlainText}
            /\ pcmData' = IF prefetch.live
                            THEN Some(IF prefetch.st = "first" THEN SpeechText ELSE PlainText)
                            ELSE pcmData
       ELSE /\ prefetch' = [prefetch EXCEPT !.st = IF prefetch.st = "first" THEN "second"
                                                  ELSE "rejected",
                                           !.requests = IF prefetch.st = "first" THEN @ + 1
                                                        ELSE @]
            /\ UNCHANGED <<ttsCache, pcmData>>
  /\ cardError' = IF ok \/ prefetch.st = "first" THEN cardError
                  ELSE Some("Failed to load audio")
  /\ UNCHANGED <<ctxState, src, cardMounted, isPlaying, isGeneratingAudio,
                 sourceNodeRef, audioPromiseRef, plays, chips, ctxCreated, textLen>>

\* generateSpeech for the prefetch settles: fetchAudio retries with the
\* unmodified text after a failure of the optimised one; the promise's then
\* stores the bytes if the effect is still live
prefetchSettle(ok) ==
  /\ prefetch.st \in {"first", "second"}
  /\ IF ok
       THEN /\ prefetch' = [prefetch EXCEPT !.st = "resolved",
                              !.data = Some(IF prefetch.st = "first" THEN SpeechText
                                            ELSE PlainText)]
            /\ ttsCache' = ttsCache \cup {IF prefetch.st = "first" THEN SpeechText
                                         ELSE PlainText}
            /\ pcmData' = IF prefetch.live
                            THEN Some(IF prefetch.st = "first" THEN SpeechText ELSE PlainText)
                            ELSE pcmData
       ELSE /\ prefetch' = [prefetch EXCEPT !.st = IF prefetch.st = "first" THEN "second"
                                                  ELSE "rejected",
                                           !.requests = IF prefetch.st = "first" THEN @ + 1
                                                        ELSE @]
            /\ UNCHANGED <<ttsCache, pcmData>>
  /\ UNCHANGED <<ctxState, src, cardMounted, isPlaying, isGeneratingAudio, cardError,
                 sourceNodeRef, audioPromiseRef, plays, chips, ctxCreated, textLen>>

\* playAfterPrefetch giving up when the prefetch was rejected
playAfterPrefetchNoFallback(k, newState, decodeOK) ==
  /\ k \in 1..Len(plays)
  /\ plays[k].pc = "prefetch"
  /\ prefetch.st \in {"resolved", "rejected"}
  /\ IF prefetch.st = "resolved"
       THEN \* setPcmData(data); await playAudioData(data)
            /\ pcmData' = prefetch.data
            /\ playAudioData(prefetch.data[1], cardError, RemoveAt(plays, k), TRUE, newState, decodeOK)
            /\ UNCHANGED audioPromiseRef
       ELSE \* audioPromiseRef.current = null; await generateSpeech(speechText)
            /\ audioPromiseRef' = FALSE
            /\ plays' = RemoveAt(plays, k)
            /\ cardError' = Some("Failed to load audio")
            /\ isGeneratingAudio' = FALSE
            /\ UNCHANGED <<ctxState, src, isPlaying, pcmData, sourceNodeRef, ctxCreated>>
  /\ UNCHANGED <<cardMounted, prefetch, chips, ttsCache, textLen>>

\* handlePlayAudio resumes from the await of the prefetch promise
playAfterPrefetch(k, newState, decodeOK) ==
  /\ k \in 1..Len(plays)
  /\ plays[k].pc = "prefetch"
  /\ prefetch.st \in {"resolved", "rejected"}
  /\ IF prefetch.st = "resolved"
       THEN \* setPcmData(data); await playAudioData(data)
            /\ pcmData' = prefetch.data
            /\ playAudioData(prefetch.data[1], cardError, RemoveAt(plays, k), TRUE, newState, decodeOK)
            /\ UNCHANGED audioPromiseRef
       ELSE \* audioPromiseRef.current = null; await generateSpeech(speechText)
            /\ audioPromiseRef' = FALSE
            /\ plays' = [plays EXCEPT ![k].pc = "fresh"]
            /\ UNCHANGED <<ctxState, src, isPlaying, pcmData, isGeneratingAudio,
                           cardError, sourceNodeRef, ctxCreated>>
  /\ UNCHANGED <<cardMounted, prefetch, chips, ttsCache, textLen>>

\* handlePlayAudio resumes from the await of its own generateSpeech(speechText)
playAfterFresh(k, ok, newState, decodeOK) ==
  /\ k \in 1..Len(plays)
  /\ plays[k].pc = "fresh"
  /\ IF ok \/ SpeechText \in ttsCache
       THEN /\ pcmData' = Some(SpeechText)
            /\ ttsCache' = ttsCache \cup {SpeechText}
            /\ playAudioData(SpeechText, cardError, RemoveAt(plays, k), TRUE, newState, decodeOK)
            /\ UNCHANGED audioPromiseRef
       ELSE \* catch: setError; audioPromiseRef.current = null; finally
            /\ cardError' = Some("Failed to load audio")
            /\ audioPromiseRef' = FALSE
            /\ isGeneratingAudio' = FALSE
            /\ plays' = RemoveAt(plays, k)
            /\ UNCHANGED <<ctxState, src, isPlaying, pcmData, sourceNodeRef, ttsCache, ctxCreated>>
  /\ UNCHANGED <<cardMounted, prefetch, chips, textLen>>

\* ctx.resume() resolves
ctxResume ==
  /\ ctxState = "suspended"
  /\ \/ \E k \in 1..Len(plays) : plays[k].pc = "resume"
     \/ \E c \in Chips : chips[c].pc = "resume"
  /\ ctxState' = "running"
  /\ UNCHANGED ctxCreated
  /\ UNCHANGED <<src, cardMounted, isPlaying, pcmData, isGeneratingAudio, cardError,
                 sourceNodeRef, audioPromiseRef, prefetch, plays, chips, ttsCache, textLen>>

\* playAudioData resumes from the await of ctx.resume()
playAfterResume(k, decodeOK) ==
  /\ k \in 1..Len(plays)
  /\ plays[k].pc = "resume"
  /\ ctxState = "running"
  /\ playNow(src, sourceNodeRef, cardError, RemoveAt(plays, k), plays[k].generating, decodeOK)
  /\ UNCHANGED <<ctxState, cardMounted, pcmData, audioPromiseRef, prefetch, chips,
                 ttsCache, ctxCreated, textLen>>

\* PhraseChip playPhrase (button disabled while isLoading) up to its await of
\* generateSpeech
playPhrase(c) ==
  /\ cardMounted
  /\ ~chips[c].isLoading
  /\ IF chips[c].isPlaying
       THEN IF chips[c].sourceRef # None
              THEN /\ src' = Stopped(src, chips[c].sourceRef)
                   /\ chips' = [chips EXCEPT ![c].isPlaying = FALSE]
              ELSE UNCHANGED <<src, chips>>
       ELSE /\ chips' = [chips EXCEPT ![c].isLoading = TRUE, ![c].pc = "speech"]
            /\ UNCHANGED src
  /\ UNCHANGED <<ctxState, cardMounted, isPlaying, pcmData, isGeneratingAudio, cardError,
                 sourceNodeRef, audioPromiseRef, prefetch, plays, ttsCache, ctxCreated, textLen>>

\* the chip's playback once the context is running: decode, create and start the
\* source, setIsPlaying(true), finally setIsLoading(false)
chipPlayNow(c, decodeOK) ==
  IF decodeOK
    THEN /\ Len(src) < MaxSources
         /\ src' = Started(src, c)
         /\ chips' = [chips EXCEPT ![c] = [isPlaying |-> TRUE, isLoading |-> FALSE,
                                          sourceRef |-> Some(Len(src) + 1), pc |-> "idle"]]
    ELSE /\ src' = src
         /\ chips' = [chips EXCEPT ![c].isPlaying = FALSE, ![c].isLoading = FALSE,
                                   ![c].pc = "idle"]

\* playPhrase resumes from the await of generateSpeech(phrase.text)
phraseAfterSpeech(c, ok, newState, decodeOK) ==
  /\ chips[c].pc = "speech"
  /\ IF ok \/ PhraseText(c) \in ttsCache
       THEN /\ ttsCache' = ttsCache \cup {PhraseText(c)}
            /\ ctxState' = getAudioContext(newState)
            /\ ctxCreated' = contextsAfterGet(ctxCreated)
            /\ IF getAudioContext(newState) = "suspended"
                 THEN /\ chips' = [chips EXCEPT ![c].pc = "resume"]
                      /\ UNCHANGED src
                 ELSE chipPlayNow(c, decodeOK)
       ELSE /\ chips' = [chips EXCEPT ![c].isPlaying = FALSE, ![c].isLoading = FALSE,
                                      ![c].pc = "idle"]
            /\ UNCHANGED <<ctxState, src, ttsCache, ctxCreated>>
  /\ UNCHANGED <<cardMounted, isPlaying, pcmData, isGeneratingAudio, cardError,
                 sourceNodeRef, audioPromiseRef, prefetch, plays, textLen>>

\* playPhrase resumes from the await of ctx.resume()
phraseAfterResume(c, decodeOK) ==
  /\ chips[c].pc = "resume"
  /\ ctxState = "running"
  /\ chipPlayNow(c, decodeOK)
  /\ UNCHANGED <<ctxState, cardMounted, isPlaying, pcmData, isGeneratingAudio, cardError,
                 sourceNodeRef, audioPromiseRef, prefetch, plays, ttsCache, ctxCreated, textLen>>

\* a playing source reaches the end of its buffer
sourceRunsOut(n) ==
  /\ n \in 1..Len(src)
  /\ src[n].st = "playing"
  /\ src' = [src EXCEPT ![n].st = "ending"]
  /\ UNCHANGED <<ctxState, cardMounted, isPlaying, pcmData, isGeneratingAudio, cardError,
                 sourceNodeRef, audioPromiseRef, prefetch, plays, chips, ttsCache, ctxCreated, textLen>>

\* source.onended of a source that was stopped or ran out: setIsPlaying(false)
\* of the component that created it
onended(n) ==
  /\ n \in 1..Len(src)
  /\ src[n].st = "ending"
  /\ src' = [src EXCEPT ![n].st = "done"]
  /\ IF src[n].owner = CardOwner
       THEN /\ isPlaying' = FALSE
            /\ UNCHANGED chips
       ELSE /\ chips' = [chips EXCEPT ![src[n].owner].isPlaying = FALSE]
            /\ UNCHANGED isPlaying
  /\ UNCHANGED <<ctxState, cardMounted, pcmData, isGeneratingAudio, cardError,
                 sourceNodeRef, audioPromiseRef, prefetch, plays, ttsCache, ctxCreated, textLen>>

RECURSIVE StoppedAll(_, _)
\* source.stop() on the nodes held by the refs of the chips in C
StoppedAll(S, C) ==
  IF C = {} THEN S
  ELSE LET c == CHOOSE x \in C : TRUE
       IN StoppedAll(Stopped(S, chips[c].sourceRef), C \ {c})

\* the card is unmounted with its chips: the cleanups stop the nodes the refs
\* hold and clear the prefetch effect's isMounted flag
unmountCard ==
  /\ cardMounted
  /\ cardMounted' = FALSE
  /\ src' = StoppedAll(Stopped(src, sourceNodeRef), Chips)
  /\ sourceNodeRef' = None
  /\ isPlaying' = FALSE
  /\ prefetch' = [prefetch EXCEPT !.live = FALSE]
  /\ UNCHANGED <<ctxState, pcmData, isGeneratingAudio, cardError, audioPromiseRef,
                 plays, chips, ttsCache, ctxCreated, textLen>>

\* ------------------------------------------------------------------------
\* decodePcmAudio
\* ------------------------------------------------------------------------
MaxBytes == 3

\* the byte values the buffers are made of
ByteValues == {0, 1, 127, 128, 255}

\* the buffers of 1..n bytes; generateSpeech never delivers an empty buffer (an
\* empty inlineData.data is treated as missing audio)
RECURSIVE Buffers(_)
Buffers(n) == IF n = 0 THEN {} ELSE Buffers(n - 1) \cup [1..n -> ByteValues]

\* the element of an Int16Array over the bytes lo, hi (little endian, two's
\* complement)
Int16(lo, hi) == IF lo + 256 * hi >= 32768 THEN lo + 256 * hi - 65536 ELSE lo + 256 * hi

\* new Int16Array(bytes): a RangeError when the byte length is odd
Int16Array(bytes) ==
  IF Len(bytes) % 2 # 0 THEN [threw |-> TRUE, data |-> <<>>]
  ELSE [threw |-> FALSE,
        data |-> [i \in 1..(Len(bytes) \div 2) |-> Int16(bytes[2 * i - 1], bytes[2 * i])]]

\* the conversion of a sample dividing by 32767
toFloatBy32767(s) == [num |-> s, den |-> 32767]

\* channelData[i] = int16Data[i] / 32768.0, kept as the exact fraction num / den
toFloat(s) == [num |-> s, den |-> 32768]

\* ctx.createBuffer(1, length, sampleRate): a NotSupportedError when length is 0
createBuffer(length) == IF length < 1 THEN [threw |-> TRUE] ELSE [threw |-> FALSE]

\* the outcome of decodePcmAudio for the 16-bit data it converts
decodeData(int16Data) ==
  IF int16Data.threw \/ createBuffer(Len(int16Data.data)).threw
    THEN [threw |-> TRUE, channelData |-> <<>>]
    ELSE [threw |-> FALSE,
          channelData |-> [i \in 1..Len(int16Data.data) |-> toFloat(int16Data.data[i])]]

\* decodePcmAudio converting the buffer as it is
decodePcmAudioNoTrim(bytes) == decodeData(Int16Array(bytes))

\* decodePcmAudio: the last byte of a buffer of odd length is dropped
decodePcmAudio(bytes) ==
  decodeData(Int16Array(IF Len(bytes) % 2 # 0 THEN SubSeq(bytes, 1, Len(bytes) - 1)
                        ELSE bytes))

NoDecode == buffer = <<>> /\ decoded = None

InitDecode == buffer \in Buffers(MaxBytes) /\ decoded = None

\* const audioBuffer = decodePcmAudio(data, ctx)
decode ==
  /\ buffer # <<>>
  /\ decoded = None
  /\ decoded' = Some(decodePcmAudio(buffer))
  /\ UNCHANGED buffer

\* ------------------------------------------------------------------------
\* services/gemini.ts generateSpeech
\* ------------------------------------------------------------------------
MaxCalls == 2

\* the (text, voiceName) arguments considered
SpeechInputs == {<<"a-b", "Kore">>, <<"a", "b-Kore">>}

\* the collaborator synthesises anew at every call: two calls for the same
\* text and voice may return different bytes
AudioTakes == {1, 2}

\* the finish reasons of a response without audio, and the errors of a call
\* that throws (by the substrings the catch block looks for)
FinishReasons == {"OTHER", "RECITATION", "SAFETY"}
SpeechErrors == {{}, {"500"}, {"Internal error"}}

\* `${text}-${voiceName}`
cacheKey(text, voiceName) == text \o "-" \o voiceName

\* ttsCache.has / get / set
cacheHas(key) == \E e \in cache : e.key = key
cacheGet(key) == (CHOOSE e \in cache : e.key = key).data
cacheSet(key, data) == {e \in cache : e.key # key} \cup {[key |-> key, data |-> data]}

\* generateSpeech(text, voiceName, retryCount) up to its first await, for the
\* invocation c: a cache hit returns the cached bytes, otherwise the
\* collaborator is called
enter(c, retryCount) ==
  IF cacheHas(cacheKey(c.text, c.voiceName))
    THEN [c EXCEPT !.retryCount = retryCount, !.pc = "resolved",
                   !.out = Some(cacheGet(cacheKey(c.text, c.voiceName)))]
    ELSE [c EXCEPT !.retryCount = retryCount, !.pc = "await", !.requests = @ + 1]

\* a caller invokes generateSpeech(text, voiceName)
generateSpeech(text, voiceName) ==
  /\ Len(calls) < MaxCalls
  /\ calls' = Append(calls, enter([text |-> text, voiceName |-> voiceName, retryCount |-> 0,
                                   pc |-> "new", requests |-> 0, out |-> None], 0))
  /\ UNCHANGED cache

\* the collaborator answers with audio: the bytes are stored under the key and
\* returned
respondAudio(k, take) ==
  /\ k \in 1..Len(calls)
  /\ calls[k].pc = "await"
  /\ LET data == [text |-> calls[k].text, voiceName |-> calls[k].voiceName, take |-> take]
     IN /\ cache' = cacheSet(cacheKey(calls[k].text, calls[k].voiceName), data)
        /\ calls' = [calls EXCEPT ![k].pc = "resolved", ![k].out = Some(data)]

\* respondNoAudio retrying while retryCount < 2
respondNoAudioRetryingTwice(k, finishReason) ==
  /\ k \in 1..Len(calls)
  /\ calls[k].pc = "await"
  /\ calls' = [calls EXCEPT ![k] =
       IF finishReason \in {"OTHER", "RECITATION"} /\ @.retryCount < 2
         THEN enter(@, @.retryCount + 1)
         ELSE [@ EXCEPT !.pc = "rejected"]]
  /\ UNCHANGED cache

\* the collaborator answers without audio: one retry for the finish reasons
\* OTHER and RECITATION (the retry's promise is returned, so its rejection is
\* the invocation's), otherwise the throw is caught and rethrown as
\* 'Failed to generate speech.'
respondNoAudio(k, finishReason) ==
  /\ k \in 1..Len(calls)
  /\ calls[k].pc = "await"
  /\ calls' = [calls EXCEPT ![k] =
       IF finishReason \in {"OTHER", "RECITATION"} /\ @.retryCount < 1
         THEN enter(@, @.retryCount + 1)
         ELSE [@ EXCEPT !.pc = "rejected"]]
  /\ UNCHANGED cache

\* the collaborator call throws: catch waits 500 ms before one retry for an
\* error text containing '500' or 'Internal error', otherwise rethrows
respondError(k, err) ==
  /\ k \in 1..Len(calls)
  /\ calls[k].pc = "await"
  /\ calls' = [calls EXCEPT ![k].pc =
       IF ("500" \in err \/ "Internal error" \in err) /\ calls[k].retryCount < 1
         THEN "timer" ELSE "rejected"]
  /\ UNCHANGED cache

\* the 500 ms timer fires: generateSpeech(text, voiceName, retryCount + 1)
retryTimeout(k) ==
  /\ k \in 1..Len(calls)
  /\ calls[k].pc = "timer"
  /\ calls' = [calls EXCEPT ![k] = enter(@, @.retryCount + 1)]
  /\ UNCHANGED cache

NoSpeech == cache = {} /\ calls = <<>>

\* ------------------------------------------------------------------------
\* CameraInput: the dimensions of the captured / imported image
\* ------------------------------------------------------------------------
MAX_WIDTH == 1024

\* the source widths and heights considered
Widths == {0, 1, 640, 1024, 1025, 1122, 2048}
Heights == {0, 1, 480, 1024, 1122, 1536, 3000}

\* captureFrame: finalWidth and finalHeight for video.videoWidth w and
\* video.videoHeight h; finalHeight = h * (MAX_WIDTH / w) is kept as a fraction
captureFrameSize(w, h) ==
  IF w > MAX_WIDTH
    THEN [finalWidth |-> MAX_WIDTH, finalHeight |-> [num |-> h * MAX_WIDTH, den |-> w]]
    ELSE [finalWidth |-> w, finalHeight |-> [num |-> h, den |-> 1]]

\* the onload of handleFileChange scaling when the height exceeds MAX_WIDTH
handleFileChangeSizeByHeight(w, h) ==
  IF h > MAX_WIDTH
    THEN [finalWidth |-> MAX_WIDTH, finalHeight |-> [num |-> h * MAX_WIDTH, den |-> w]]
    ELSE [finalWidth |-> w, finalHeight |-> [num |-> h, den |-> 1]]

\* the onload of handleFileChange: finalWidth and finalHeight for img.width w
\* and img.height h
handleFileChangeSize(w, h) ==
  IF w > MAX_WIDTH
    THEN [finalWidth |-> MAX_WIDTH, finalHeight |-> [num |-> h * MAX_WIDTH, den |-> w]]
    ELSE [finalWidth |-> w, finalHeight |-> [num |-> h, den |-> 1]]

NoRaster == source = [w |-> 0, h |-> 0] /\ captured = None /\ imported = None

InitRaster == source \in [w : Widths, h : Heights] /\ captured = None /\ imported = None

\* the shutter is pressed on a frame of the source's size
drawFrame ==
  /\ captured = None
  /\ captured' = Some(captureFrameSize(source.w, source.h))
  /\ UNCHANGED <<source, imported>>

\* a chosen file of the source's size has been decoded
drawFile ==
  /\ imported = None
  /\ imported' = Some(handleFileChangeSize(source.w, source.h))
  /\ UNCHANGED <<source, captured>>

\* ------------------------------------------------------------------------
\* App: specifications
\* ------------------------------------------------------------------------
AppOnly == UNCHANGED <<camVars, audVars, decVars, spVars, dimVars>>
CameraOnly == UNCHANGED <<appVars, audVars, decVars, spVars, dimVars>>
AudioOnly == UNCHANGED <<appVars, camVars, decVars, spVars, dimVars>>
DecodeOnly == UNCHANGED <<appVars, camVars, audVars, spVars, dimVars>>
SpeechOnly == UNCHANGED <<appVars, camVars, audVars, decVars, dimVars>>
RasterOnly == UNCHANGED <<appVars, camVars, audVars, decVars, spVars>>

Init == InitApp(InitialStorages) /\ InitCamera /\ InitAudio /\ NoDecode /\ NoSpeech /\ NoRaster

Next ==
  \/ (\E img \in Images : captureFrame(img, MaxInflight, MaxRequests)) /\ AppOnly
  \/ (\E img \in Images : handleFileChange(img)) /\ AppOnly
  \/ (\E p \in pendingImports : imgOnload(p, MaxInflight, MaxRequests)) /\ AppOnly
  \/ (\E lang \in LanguageNames : onSelect(lang, MaxInflight, MaxRequests)) /\ AppOnly
  \/ (\E i \in 1..Len(inflight), raw \in RawImageResponses, writeOK \in BOOLEAN :
        translateImageResolve(i, raw, writeOK)) /\ AppOnly
  \/ (\E i \in 1..Len(inflight), raw \in RawTextResponses, writeOK \in BOOLEAN :
        translateTextResolve(i, raw, writeOK)) /\ AppOnly
  \/ (\E i \in 1..Len(inflight), err \in ErrorTexts : handleError(i, err)) /\ AppOnly
  \/ resetApp /\ AppOnly
  \/ toggleHistory /\ AppOnly
  \/ (\E i \in 1..Len(history) : handleHistorySelect(i)) /\ AppOnly
  \/ (\E writeOK \in BOOLEAN : clearHistory(writeOK)) /\ AppOnly
  \/ Tick(MaxTime) /\ AppOnly

Spec == Init /\ [][Next]_vars

\* The history store over a long run: one frame, one collaborator answer, no
\* failure of the collaborator or of the storage, up to MaxRequestsHist translations.
InitHist == InitApp({None}) /\ InitCamera /\ InitAudio /\ NoDecode /\ NoSpeech /\ NoRaster

NextHist ==
  \/ captureFrame("img1", 1, MaxRequestsHist) /\ AppOnly
  \/ (\E i \in 1..Len(inflight) : translateImageResolve(i, RawFull, TRUE)) /\ AppOnly
  \/ resetApp /\ AppOnly
  \/ Tick(MaxTimeHist) /\ AppOnly

SpecHist == InitHist /\ [][NextHist]_vars

\* The camera component on its own: mounting, visibility changes, the restart
\* button, the completions of getUserMedia and the unmount.
InitCam == InitApp({None}) /\ InitCamera /\ InitAudio /\ NoDecode /\ NoSpeech /\ NoRaster

NextCam ==
  \/ handleVisibilityChange /\ CameraOnly
  \/ restartClick /\ CameraOnly
  \/ restartTimeout /\ CameraOnly
  \/ (\E k \in 1..Len(starts) : getUserMediaResolve(k)) /\ CameraOnly
  \/ (\E k \in 1..Len(starts), err \in MediaErrors : getUserMediaReject(k, err)) /\ CameraOnly
  \/ onloadeddata /\ CameraOnly
  \/ unmount /\ CameraOnly

SpecCam == InitCam /\ [][NextCam]_vars

\* The translation card with its phrase chips and the audio output on their own.
InitAud == InitApp({None}) /\ InitCamera /\ InitAudio /\ NoDecode /\ NoSpeech /\ NoRaster

NextAud ==
  \/ (\E ns \in NewCtxStates, ok \in BOOLEAN : handlePlayAudio(ns, ok)) /\ AudioOnly
  \/ (\E ok \in BOOLEAN : prefetchSettle(ok)) /\ AudioOnly
  \/ (\E k \in 1..Len(plays), ns \in NewCtxStates, ok \in BOOLEAN :
        playAfterPrefetch(k, ns, ok)) /\ AudioOnly
  \/ (\E k \in 1..Len(plays), ok \in BOOLEAN, ns \in NewCtxStates, dok \in BOOLEAN :
        playAfterFresh(k, ok, ns, dok)) /\ AudioOnly
  \/ ctxResume /\ AudioOnly
  \/ (\E k \in 1..Len(plays), ok \in BOOLEAN : playAfterResume(k, ok)) /\ AudioOnly
  \/ (\E c \in Chips : playPhrase(c)) /\ AudioOnly
  \/ (\E c \in Chips, ok \in BOOLEAN, ns \in NewCtxStates, dok \in BOOLEAN :
        phraseAfterSpeech(c, ok, ns, dok)) /\ AudioOnly
  \/ (\E c \in Chips, ok \in BOOLEAN : phraseAfterResume(c, ok)) /\ AudioOnly
  \/ (\E n \in 1..Len(src) : sourceRunsOut(n)) /\ AudioOnly
  \/ (\E n \in 1..Len(src) : onended(n)) /\ AudioOnly
  \/ unmountCard /\ AudioOnly

SpecAud == InitAud /\ [][NextAud]_vars

\* decodePcmAudio on its own: one buffer of generateSpeech is decoded.
InitDec == InitApp({None}) /\ InitCamera /\ InitAudio /\ InitDecode /\ NoSpeech /\ NoRaster

NextDec ==
  \/ decode /\ DecodeOnly

SpecDec == InitDec /\ [][NextDec]_vars

\* generateSpeech called concurrently by the card and the chips; fairness: the
\* collaborator settles every call made to it and the timer of a retry fires
InitSp == InitApp({None}) /\ InitCamera /\ InitAudio /\ NoDecode /\ NoSpeech /\ NoRaster

collaboratorSettles ==
  \/ \E k \in 1..Len(calls), take \in AudioTakes : respondAudio(k, take)
  \/ \E k \in 1..Len(calls), finishReason \in FinishReasons : respondNoAudio(k, finishReason)
  \/ \E k \in 1..Len(calls), err \in SpeechErrors : respondError(k, err)

NextSp ==
  \/ (\E in \in SpeechInputs : generateSpeech(in[1], in[2])) /\ SpeechOnly
  \/ collaboratorSettles /\ SpeechOnly
  \/ (\E k \in 1..Len(calls) : retryTimeout(k)) /\ SpeechOnly

SpecSp ==
  /\ InitSp
  /\ [][NextSp]_vars
  /\ WF_vars(collaboratorSettles /\ SpeechOnly)
  /\ WF_vars((\E k \in 1..Len(calls) : retryTimeout(k)) /\ SpeechOnly)

\* the two ways CameraInput produces an image, applied to one source size
InitDim == InitApp({None}) /\ InitCamera /\ InitAudio /\ NoDecode /\ NoSpeech /\ InitRaster

NextDim ==
  \/ drawFrame /\ RasterOnly
  \/ drawFile /\ RasterOnly

SpecDim == InitDim /\ [][NextDim]_vars

TypeOK ==
  /\ appState \in {IDLE, PROCESSING, SUCCESS, ERROR}
  /\ Len(inflight) <= MaxInflight
  /\ pendingImports # {} => appState = IDLE

\* ------------------------------------------------------------------------
\* Properties of the session state machine and the history store
\* ------------------------------------------------------------------------
Last(s) == s[Len(s)]

\* a step in which the collaborator's answer to the i-th pending request is handled
ResponseStep(i) == i \in 1..Len(inflight) /\ inflight' = RemoveAt(inflight, i)

\* C3: when the answer (success or failure) to a request arrives after a newer
\* request has been started, it changes neither the session state, the result,
\* the error message nor the history.
C3_StaleResponseDiscarded ==
  [][\A i \in 1..Len(inflight) :
       (ResponseStep(i) /\ inflight[i].seq < issued)
         => UNCHANGED <<appState, result, errorMsg, history>>]_vars

\* C4: at any moment at most one translation request issued by the session state
\* machine is outstanding.
C4_AtMostOneOutstanding == Len(inflight) <= 1

\* the history after appending the result r at the current time
Appended(r) == Take(<<newItem(r, now)>> \o history, HistoryCap)

\* C5 (as stated): every transition of the session into Success appends the
\* result being shown to the history as the new head entry, whichever operation
\* caused it.
C5_EverySuccessAppends ==
  [][(appState # SUCCESS /\ appState' = SUCCESS)
       => (result' # None /\ history' = Appended(result'[1]))]_vars

\* C5 (amended): a transition into Success caused by a successful translation
\* response (translateImage or translateText) appends the returned result as the
\* new head entry of the history; a transition into Success caused by selecting a
\* history item shows that item and leaves the history unchanged.
C5_TranslationSuccessAppends ==
  [][(appState' = SUCCESS /\ (appState # SUCCESS \/ Len(inflight') < Len(inflight)))
       => IF Len(inflight') < Len(inflight)
            THEN result' # None /\ history' = Appended(result'[1])
            ELSE /\ history' = history
                 /\ \E i \in 1..Len(history) : result' = Some(history[i])]_vars

C5_Witness ==
  /\ appState = SUCCESS
  /\ result # None
  /\ DOMAIN result[1] = ResultFields
  /\ Len(history) > 1
  /\ history[1] = newItem(result[1], history[1].timestamp)

\* C6: the result produced by a re-translation has the same recommendations,
\* essentialPhrases and confidenceScore as the result it replaced.
C6_RetranslationPreservesAux ==
  [][\A i \in 1..Len(inflight) :
       (ResponseStep(i) /\ inflight[i].kind = "text" /\ appState' = SUCCESS /\ result # None)
         => /\ result'[1].recommendations = result[1].recommendations
            /\ result'[1].essentialPhrases = result[1].essentialPhrases
            /\ result'[1].confidenceScore = result[1].confidenceScore]_vars

\* C7: a language change made in Success with a result present issues exactly
\* one request, a text-only translateText carrying the result's detected text
\* and source language and the newly selected language, never a translateImage,
\* and moves the session to Processing with stage translating.
C7_LanguageChangeRetranslates ==
  [][(appState = SUCCESS /\ result # None)
       => /\ \A lang \in LanguageNames :
               onSelect(lang, MaxInflight, MaxRequests)
                 => /\ Len(inflight') = Len(inflight) + 1
                    /\ Last(inflight').targetLanguage = lang
          /\ Len(inflight') > Len(inflight)
               => /\ Len(inflight') = Len(inflight) + 1
                  /\ SubSeq(inflight', 1, Len(inflight)) = inflight
                  /\ Last(inflight').kind = "text"
                  /\ Last(inflight').text = result[1].detectedText
                  /\ Last(inflight').currentSourceLanguage = result[1].sourceLanguage
                  /\ Last(inflight').targetLanguage = selectedLanguage'
                  /\ appState' = PROCESSING
                  /\ processingStage' = "translating"]_vars

C7_Witness ==
  /\ appState = PROCESSING
  /\ processingStage = "translating"
  /\ result # None
  /\ Len(inflight) = 1
  /\ inflight[1].kind = "text"
  /\ inflight[1].text = result[1].detectedText
  /\ inflight[1].targetLanguage = selectedLanguage
  /\ inflight[1].targetLanguage # result[1].targetLanguage

\* the four messages of handleError
ErrorMessages == {MsgAccessDenied, MsgRateLimit, MsgBadRequest, MsgGeneric}

\* the session after a capture or import of img in Idle, as the claim has it
AnalyzeIssued(img) ==
  /\ appState' = PROCESSING
  /\ processingStage' = "reading"
  /\ inflight' = Append(inflight, [kind |-> "image", seq |-> issued + 1,
                                   base64Image |-> img,
                                   targetLanguage |-> selectedLanguage])

\* C8: a capture or import in Idle moves the session to Processing with stage
\* reading and issues exactly one translateImage call with the selected target
\* language; when the call is answered the session becomes Success with the
\* returned result or Error with one of the classified messages, and the answer
\* issues no further collaborator call.
C8_CaptureAnalyzesOnce ==
  [][/\ \A img \in Images :
          captureFrame(img, MaxInflight, MaxRequests) => AnalyzeIssued(img)
     /\ \A p \in pendingImports :
          imgOnload(p, MaxInflight, MaxRequests) => AnalyzeIssued(p.image)
     /\ \A i \in 1..Len(inflight) :
          (ResponseStep(i) /\ inflight[i].kind = "image")
            => /\ issued' = issued
               /\ \/ /\ appState' = SUCCESS
                     /\ \E raw \in RawImageResponses :
                          result' = Some(translateImage(raw, inflight[i].targetLanguage))
                  \/ /\ appState' = ERROR
                     /\ errorMsg' # None
                     /\ errorMsg'[1] \in ErrorMessages]_vars

\* C9: the in-memory history holds at most 50 items, newest first, and is
\* exactly the (up to) 50 most recently appended items in reverse order of
\* appending; so after N > 50 appends it is the 50 most recent ones.
C9_HistoryIsLast50 ==
  /\ Len(history) <= HistoryCap
  /\ history = Take(Reverse(appended), HistoryCap)
  /\ \A i \in 1..Len(history), j \in 1..Len(history) :
       i < j => history[i].timestamp >= history[j].timestamp

C9_Witness ==
  /\ Len(appended) > HistoryCap
  /\ Len(history) = HistoryCap
  /\ history[1].id # history[HistoryCap].id

\* C10: no item of the in-memory history carries image data, and no item
\* written to persistent storage has an image field, whatever image is held.
C10_NoImageInHistory ==
  /\ \A i \in 1..Len(history) : history[i].imageUrl = None
  /\ storage # None => \A i \in 1..Len(storage[1]) : "imageUrl" \notin DOMAIN storage[1][i]

C10_Witness ==
  /\ appState = SUCCESS
  /\ selectedImage # None
  /\ Len(history) > 0
  /\ history[1].timestamp >= 1
  /\ storage # None
  /\ Len(storage[1]) > 0
  /\ storage[1][1].timestamp >= 1

\* C24: whenever handleError receives an error whose text contains "429", the
\* session is in Error with the rate-limit message afterwards.
C24_RateLimitMessage ==
  [][\A i \in 1..Len(inflight), err \in ErrorTexts :
       (handleError(i, err) /\ "429" \in err)
         => /\ appState' = ERROR
            /\ errorMsg' = Some(MsgRateLimit)]_vars

\* C25: the result set by a successful translateImage has a confidenceScore
\* within 0..100 and non-empty detectedText and translatedText.
C25_ResultWithinRange ==
  [][\A i \in 1..Len(inflight), raw \in RawImageResponses, writeOK \in BOOLEAN :
       translateImageResolve(i, raw, writeOK)
         => /\ result'[1].confidenceScore[1] \in 0..100
            /\ result'[1].detectedText # ""
            /\ result'[1].translatedText # ""]_vars

\* C26: a step that appends to or clears the history leaves the stored list
\* equal to the new in-memory list without image fields (the empty list after a
\* clear) when the write succeeds; when the write fails the in-memory history,
\* the result and the session state are what they are when it succeeds, and the
\* session is not put into Error.
C26_StoreFollowsHistory ==
  [][/\ \A i \in 1..Len(inflight), writeOK \in BOOLEAN :
          (\/ \E raw \in RawImageResponses : translateImageResolve(i, raw, writeOK)
           \/ \E raw \in RawTextResponses : translateTextResolve(i, raw, writeOK))
            => /\ writeOK => storage' = Some(historyToSave(history'))
               /\ history' = Appended(result'[1])
               /\ result' # None
               /\ appState' = SUCCESS
               /\ errorMsg' = errorMsg
     /\ \A writeOK \in BOOLEAN :
          clearHistory(writeOK)
            => /\ writeOK => storage' = Some(<<>>)
               /\ ~writeOK => storage' = None
               /\ history' = <<>>
               /\ result' = result
               /\ appState' = appState
               /\ errorMsg' = errorMsg
     /\ history' # history
          => \/ storage' = Some(historyToSave(history'))
             \/ storage' = storage
             \/ history' = <<>> /\ storage' = None]_vars

C26_Witness ==
  /\ appState = SUCCESS
  /\ result # None
  /\ Len(history) = 2
  /\ history[1] = newItem(result[1], history[1].timestamp)
  /\ storage = Some(<<SavedItem>>)
  /\ storage # Some(historyToSave(history))

\* no Idle session holds a captured image
IdleHoldsNoImage == appState = IDLE => selectedImage = None

\* C27: a language change made in Idle while an image is held and there is no
\* result moves the session to Processing with stage reading and issues the
\* analysis of that image for the new language; and the session gets into such
\* an Idle state: an image held without a result when the session returns to
\* Idle (after a failed analysis) is still held there.
C27_IdleLanguageChangeReanalyses ==
  [][/\ \A lang \in LanguageNames :
          (/\ onSelect(lang, MaxInflight, MaxRequests)
           /\ appState = IDLE /\ selectedImage # None /\ result = None)
            => /\ appState' = PROCESSING
               /\ processingStage' = "reading"
               /\ selectedLanguage' = lang
               /\ inflight' = Append(inflight, [kind |-> "image", seq |-> issued + 1,
                                                base64Image |-> selectedImage[1],
                                                targetLanguage |-> lang])
     /\ (appState # IDLE /\ appState' = IDLE /\ selectedImage # None /\ result = None)
          => /\ selectedImage' = selectedImage
             /\ result' = None]_vars

\* C31: handleError puts the session in Error with the message of the first
\* match among: "403" or "PERMISSION_DENIED" (access denied), "429" (rate limit),
\* "400" (bad request), none (generic); and it leaves the result, the held image
\* and the history as they are.
C31_ErrorClassification ==
  [][\A i \in 1..Len(inflight), err \in ErrorTexts :
       handleError(i, err)
         => /\ appState' = ERROR
            /\ errorMsg' # None
            /\ errorMsg'[1] \in ErrorMessages
            /\ ("403" \in err \/ "PERMISSION_DENIED" \in err) => errorMsg'[1] = MsgAccessDenied
            /\ ("429" \in err /\ "403" \notin err /\ "PERMISSION_DENIED" \notin err)
                 => errorMsg'[1] = MsgRateLimit
            /\ ("400" \in err /\ err \cap {"403", "PERMISSION_DENIED", "429"} = {})
                 => errorMsg'[1] = MsgBadRequest
            /\ err \cap ErrorMarkers = {} => errorMsg'[1] = MsgGeneric
            /\ result' = result
            /\ selectedImage' = selectedImage
            /\ history' = history]_vars

C31_Witness ==
  /\ appState = ERROR
  /\ errorMsg = Some(MsgAccessDenied)
  /\ selectedImage # None
  /\ result # None
  /\ Len(history) > 0

\* C32: while the session is in Success a result is held, and while it is in
\* Error an error message is held.
C32_PayloadPresent ==
  /\ appState = SUCCESS => result # None
  /\ appState = ERROR => errorMsg # None

C32_Witness ==
  /\ appState = ERROR
  /\ errorMsg # None
  /\ result # None
  /\ issued = MaxRequests

\* C33: a step that takes the session from Error or Success to Idle (resetApp
\* by 'Try Again', 'Translate Another' or the header) leaves no held image, no
\* result and no error message, and leaves the history and its stored copy as
\* they are; and resetApp in Error or Success is such a step.
C33_ResetClearsSession ==
  [][/\ (appState \in {ERROR, SUCCESS} /\ appState' = IDLE)
          => /\ selectedImage' = None
             /\ result' = None
             /\ errorMsg' = None
             /\ history' = history
             /\ storage' = storage
     /\ (resetApp /\ appState \in {ERROR, SUCCESS}) => appState' = IDLE]_vars

C33_Witness ==
  /\ appState = IDLE
  /\ Len(history) = 2
  /\ selectedImage = None
  /\ result = None
  /\ errorMsg = None

\* C34: selecting the i-th history item puts the session in Success with that
\* item as the result and no held image, issues no collaborator call, and
\* leaves the history and its stored copy unchanged.
C34_HistoryReplay ==
  [][\A i \in 1..Len(history) :
       handleHistorySelect(i)
         => /\ appState' = SUCCESS
            /\ result' = Some(history[i])
            /\ selectedImage' = None
            /\ inflight' = inflight
            /\ issued' = issued
            /\ history' = history
            /\ storage' = storage]_vars

C34_Witness ==
  /\ appState = SUCCESS
  /\ result # None
  /\ "id" \in DOMAIN result[1]
  /\ \E i \in 1..Len(history) : result[1] = history[i]
  /\ selectedImage = None
  /\ inflight = <<>>

\* C35: the result set by the answer to a re-translation has the detectedText
\* and the sourceLanguage of the result it replaces, and differs from it in
\* translatedText and targetLanguage only.
C35_RetranslationKeepsSource ==
  [][\A i \in 1..Len(inflight) :
       (ResponseStep(i) /\ inflight[i].kind = "text" /\ appState' = SUCCESS /\ result # None)
         => /\ result'[1].detectedText = result[1].detectedText
            /\ result'[1].sourceLanguage = result[1].sourceLanguage
            /\ \A f \in ResultFields \ {"translatedText", "targetLanguage"} :
                 result'[1][f] = result[1][f]]_vars

\* C37: while the session is Idle no image, no result and no error message is
\* held.
C37_IdleHoldsNothing ==
  appState = IDLE => (selectedImage = None /\ result = None /\ errorMsg = None)

C37_Witness ==
  /\ appState = IDLE
  /\ issued > 0
  /\ inflight = <<>>
  /\ history = <<>>
  /\ selectedImage = None /\ result = None /\ errorMsg = None

\* C38: while the session is Idle (after resetApp, before the next capture,
\* import or history selection) the answer to a pending translation request
\* leaves it Idle and appends nothing to the history.
C38_IdleUntilUserActs ==
  [][\A i \in 1..Len(inflight) :
       (ResponseStep(i) /\ appState = IDLE)
         => /\ appState' = IDLE
            /\ history' = history]_vars

\* C39: the items of the history have pairwise distinct ids.
C39_DistinctIds ==
  \A i \in 1..Len(history), j \in 1..Len(history) :
    i # j => history[i].id # history[j].id

\* ------------------------------------------------------------------------
\* Properties of the camera lifecycle
\* ------------------------------------------------------------------------
\* C2: every stream that has been acquired and is not the one held in streamRef
\* has had all its tracks stopped, so at most one live stream exists.
C2_OnlyHeldStreamLive ==
  /\ \A st \in live : streamRef = Some(st)
  /\ Cardinality(live) <= 1

\* C12: while the page is hidden no stream is held in streamRef and none is
\* live, including a stream whose acquisition was in flight when the page became
\* hidden; and the change back to visible starts a new acquisition.
C12_HiddenReleasesStream ==
  [][/\ (isMounted' /\ docHidden') => (streamRef' = None /\ live' = {})
     /\ (isMounted /\ docHidden /\ ~docHidden')
          => /\ Len(starts') = Len(starts) + 1
             /\ Last(starts').strategy = 1]_vars

\* C13: once the component is unmounted, a stream delivered to a startCamera that
\* was awaiting it has its tracks stopped, is neither stored in streamRef nor
\* attached to the video element, and no component state is set.
C13_UnmountDiscardsStream ==
  [][/\ ~isMounted' => (streamRef' = None /\ srcObject' = None)
     /\ ~isMounted
          => /\ UNCHANGED <<streamRef, srcObject, permissionError, permissionErrorMsg,
                            cameraActive>>
             /\ live' \subseteq live
             /\ \A n \in (Len(delivered) + 1)..Len(delivered') : ~delivered'[n].installed]_vars

C13_Witness ==
  /\ ~isMounted
  /\ streamRef = None
  /\ \E n \in 1..Len(delivered) : ~delivered[n].installed /\ n \notin live

\* C14: a suspended startCamera tries the strategies 1, 2, 3 in order, moving to
\* the next one only when the current one failed; the first stream delivered is
\* installed without reporting an error; permissionError is set exactly when the
\* third strategy fails while the component is mounted.
C14_FallbackLadder ==
  [][/\ \A k \in 1..Len(starts) :
          /\ (getUserMediaResolve(k) /\ isMounted)
               => /\ streamRef' = Some(acquired + 1)
                  /\ (acquired + 1) \in live'
                  /\ UNCHANGED <<permissionError, permissionErrorMsg>>
          /\ \A err \in MediaErrors :
               getUserMediaReject(k, err)
                 => IF starts[k].strategy < 3
                      THEN /\ Len(starts') = Len(starts)
                           /\ starts'[k].strategy = starts[k].strategy + 1
                           /\ UNCHANGED <<permissionError, permissionErrorMsg, streamRef>>
                      ELSE /\ Len(starts') = Len(starts) - 1
                           /\ isMounted => (permissionError' /\ permissionErrorMsg' = cameraErrorMsg(err))
     /\ (~permissionError /\ permissionError')
          => /\ isMounted
             /\ acquired' = acquired
             /\ \E k \in 1..Len(starts) : starts[k].strategy = 3 /\ starts' = RemoveAt(starts, k)
     /\ \A k \in 1..Len(starts) : starts[k].strategy \in 1..3
     /\ \A n \in 1..Len(delivered') : delivered'[n].strategy \in 1..3]_vars

C14_Witness ==
  /\ isMounted
  /\ ~permissionError
  /\ \E n \in 1..Len(delivered) :
       /\ delivered[n].strategy = 3
       /\ delivered[n].installed
       /\ streamRef = Some(n)
       /\ n \in live

\* ------------------------------------------------------------------------
\* Properties of the audio playback
\* ------------------------------------------------------------------------
\* the sources that are playing
Playing == {n \in 1..Len(src) : src[n].st = "playing"}

\* C1: at every moment at most one audio source is playing in the whole
\* application.
C1_AtMostOnePlaying == Cardinality(Playing) <= 1

\* the card's current source (the one sourceNodeRef holds) is playing
CardSourcePlaying == sourceNodeRef # None /\ src[sourceNodeRef[1]].st = "playing"

\* the card's current source is playing or has ended without its ended event
\* having been dispatched yet
CardSourceSounding ==
  sourceNodeRef # None /\ src[sourceNodeRef[1]].st \in {"playing", "ending"}

\* C11: the card's isPlaying flag is true exactly when its current source is
\* playing (up to the dispatch of the ended event of that source); the ended
\* event of a stopped source never clears the flag while a later source plays.
C11_IsPlayingMatchesSource ==
  [][/\ CardSourcePlaying' => isPlaying'
     /\ isPlaying' => CardSourceSounding']_vars

\* the suspended invocations of handlePlayAudio in P that await pc
Awaiting(P, pc) == {k \in 1..Len(P) : P[k].pc = pc}

\* C15: when the prefetch promise a playback request awaits is rejected (also
\* for a text longer than 500 characters, whose prefetch rejects at once), the
\* request goes on to a fresh generateSpeech without showing an error, and when
\* that call succeeds the bytes are kept and handed to playAudioData, never
\* 'Failed to load audio'.
C15_PrefetchFailureFallsBack ==
  [][/\ (prefetch.st = "rejected" /\ Awaiting(plays', "prefetch") # Awaiting(plays, "prefetch")
          /\ Awaiting(plays, "prefetch") # {})
          => /\ Cardinality(Awaiting(plays', "fresh")) = Cardinality(Awaiting(plays, "fresh")) + 1
             /\ isGeneratingAudio'
             /\ cardError' = cardError
     /\ \A k \in Awaiting(plays, "fresh"), newState \in NewCtxStates, decodeOK \in BOOLEAN :
          playAfterFresh(k, TRUE, newState, decodeOK)
            => /\ pcmData' = Some(SpeechText)
               /\ cardError' # Some("Failed to load audio")
               /\ \/ Len(src') = Len(src) + 1 /\ isPlaying' /\ CardSourcePlaying'
                  \/ Awaiting(plays', "resume") # {}
                  \/ ~decodeOK]_vars

C15_Witness ==
  /\ textLen > MaxPrefetchLen
  /\ prefetch.st = "rejected"
  /\ ~audioPromiseRef
  /\ pcmData = Some(SpeechText)
  /\ cardError = None
  /\ isPlaying
  /\ CardSourcePlaying

\* C16: a playback request made while nothing is playing plays the held bytes
\* without a new request if there are any; otherwise awaits the stored prefetch
\* without another request; only otherwise issues a fresh speech request.
C16_ResolutionOrder ==
  [][\A newState \in NewCtxStates, decodeOK \in BOOLEAN :
       (handlePlayAudio(newState, decodeOK) /\ ~isPlaying)
         => IF pcmData # None
              THEN /\ Awaiting(plays', "prefetch") = Awaiting(plays, "prefetch")
                   /\ Awaiting(plays', "fresh") = Awaiting(plays, "fresh")
                   /\ isGeneratingAudio' = isGeneratingAudio
            ELSE IF audioPromiseRef
              THEN /\ plays' = Append(plays, Last(plays'))
                   /\ Last(plays').pc = "prefetch"
                   /\ Awaiting(plays', "fresh") = Awaiting(plays, "fresh")
            ELSE /\ plays' = Append(plays, Last(plays'))
                 /\ Last(plays').pc = "fresh"]_vars

C16_Witness ==
  /\ pcmData = None
  /\ audioPromiseRef
  /\ isGeneratingAudio
  /\ prefetch.st \in {"first", "second"}
  /\ Awaiting(plays, "prefetch") # {}
  /\ Awaiting(plays, "fresh") = {}

\* C17: a step of the prefetch never changes the card's error, and 'Failed to
\* load audio' appears only in a step that ends a playback request's own
\* generateSpeech (the fallback or the fresh request).
C17_PrefetchFailureSilent ==
  [][/\ prefetch' # prefetch => cardError' = cardError
     /\ (cardError' = Some("Failed to load audio") /\ cardError' # cardError)
          => /\ isGeneratingAudio /\ ~isGeneratingAudio'
             /\ Awaiting(plays, "fresh") # {}
             /\ Awaiting(plays', "fresh") = {}
             /\ Len(plays') = Len(plays) - 1]_vars

C17_Witness ==
  /\ prefetch.st = "rejected"
  /\ prefetch.requests = 2
  /\ cardError = Some("Failed to load audio")
  /\ ~audioPromiseRef

\* C18: the prefetch of a card given a result has issued a speech request, and
\* is kept in audioPromiseRef, unless the text is empty or longer than 500
\* characters, in which case it has rejected without any request.
C18_PrefetchOnResult ==
  /\ (textLen = 0 \/ textLen > MaxPrefetchLen)
       => (prefetch.requests = 0 /\ prefetch.st = "rejected")
  /\ (textLen >= 1 /\ textLen <= MaxPrefetchLen)
       => /\ prefetch.requests \in 1..2
          /\ prefetch.st = "first" => prefetch.requests = 1
          /\ prefetch.st = "second" => prefetch.requests = 2
  /\ ~audioPromiseRef => prefetch.st = "rejected"

C18_Witness ==
  /\ textLen = MaxPrefetchLen
  /\ prefetch.st = "resolved"
  /\ prefetch.requests = 1
  /\ audioPromiseRef
  /\ pcmData # None

\* C19: a context is created only by a getAudioContext that finds none, so at
\* most one context exists however many playbacks the card and the chips start.
C19_OneSharedContext ==
  [][/\ ctxCreated' <= 1
     /\ ctxCreated' # ctxCreated
          => (ctxState = "none" /\ ctxState' # "none" /\ ctxCreated' = ctxCreated + 1)
     /\ (ctxState' = "none") <=> (ctxCreated' = 0)]_vars

C19_Witness ==
  /\ ctxCreated = 1
  /\ \E m \in 1..Len(src), n \in 1..Len(src) :
       src[m].owner = CardOwner /\ src[n].owner # CardOwner

\* C20: after the card is torn down no audio playback is started, whatever
\* speech request or context resume was pending at the teardown.
C20_NoPlaybackAfterTeardown ==
  [][~cardMounted => Len(src') = Len(src)]_vars

\* C23: a speech request fails only after the synthesis of the unmodified text
\* has failed too: the prefetch is rejected only from its second request, and
\* the failure of a playback request's synthesis of the optimised text neither
\* shows 'Failed to load audio' nor ends the request.
C23_UnmodifiedTextFallback ==
  [][/\ (prefetch'.st = "rejected" /\ prefetch.st # "rejected") => prefetch.st = "second"
     /\ \A k \in Awaiting(plays, "fresh"), newState \in NewCtxStates, decodeOK \in BOOLEAN :
          (playAfterFresh(k, FALSE, newState, decodeOK) /\ SpeechText \notin ttsCache)
            => /\ cardError' # Some("Failed to load audio")
               /\ isGeneratingAudio']_vars

\* ------------------------------------------------------------------------
\* Properties of generateSpeech
\* ------------------------------------------------------------------------
Settled(k) == k \in 1..Len(calls) /\ calls[k].pc \in {"resolved", "rejected"}

\* C28: an invocation of generateSpeech makes at most two collaborator calls;
\* it retries (once) exactly when its first attempt returns no audio with the
\* finish reason OTHER or RECITATION or throws an error containing '500' or
\* 'Internal error'; any other failure, and any failure of the retry, rejects
\* it; and every invocation is eventually settled when the collaborator
\* settles its calls.
C28_AtMostOneRetry ==
  /\ [](\A k \in 1..Len(calls) : calls[k].requests <= 2 /\ calls[k].retryCount <= 1)
  /\ [][\A k \in 1..Len(calls) :
         /\ \A finishReason \in FinishReasons :
              respondNoAudio(k, finishReason)
                => IF finishReason \in {"OTHER", "RECITATION"} /\ calls[k].retryCount = 0
                     THEN calls'[k].retryCount = 1 /\ calls'[k].pc \in {"await", "resolved"}
                     ELSE calls'[k].pc = "rejected" /\ calls'[k].requests = calls[k].requests
         /\ \A err \in SpeechErrors :
              respondError(k, err)
                => IF ("500" \in err \/ "Internal error" \in err) /\ calls[k].retryCount = 0
                     THEN calls'[k].pc = "timer"
                     ELSE calls'[k].pc = "rejected" /\ calls'[k].requests = calls[k].requests
         /\ retryTimeout(k)
              => calls'[k].retryCount = 1 /\ calls'[k].pc \in {"await", "resolved"}
         /\ calls'[k].requests > calls[k].requests
              => /\ calls'[k].requests = calls[k].requests + 1
                 /\ calls'[k].retryCount = 1 /\ calls[k].retryCount = 0
                 /\ calls[k].pc \in {"await", "timer"}]_vars
  /\ \A k \in 1..MaxCalls : (k \in 1..Len(calls)) ~> Settled(k)

C28_Witness ==
  \E k \in 1..Len(calls) :
    /\ calls[k].pc = "rejected"
    /\ calls[k].retryCount = 1
    /\ calls[k].requests = 2

\* C29: once a key is cached, an invocation for it returns the cached bytes
\* without a collaborator call; a step that rejects an invocation leaves the
\* cache as it is; and no entry is ever removed or replaced by other bytes.
C29_CacheEntriesStable ==
  [][/\ \A e \in cache : e \in cache'
     /\ \A in \in SpeechInputs :
          (generateSpeech(in[1], in[2]) /\ cacheHas(cacheKey(in[1], in[2])))
            => /\ Last(calls').pc = "resolved"
               /\ Last(calls').requests = 0
               /\ Last(calls').out = Some(cacheGet(cacheKey(in[1], in[2])))
     /\ \A k \in 1..Len(calls) :
          (calls[k].pc # "rejected" /\ calls'[k].pc = "rejected") => cache' = cache]_vars

Downsized(w, h) ==
  [finalWidth |-> IF w < MAX_WIDTH THEN w ELSE MAX_WIDTH,
   finalHeight |-> IF w > MAX_WIDTH THEN [num |-> h * MAX_WIDTH, den |-> w]
                   ELSE [num |-> h, den |-> 1]]

SamplesOf(bytes, n) == [i \in 1..n |-> Int16(bytes[2 * i - 1], bytes[2 * i])]

\* C21: decoding a buffer of an odd number n of bytes does not throw and yields
\* the (n-1)/2 samples of its first n-1 bytes.
C21_OddLengthDecodes ==
  (decoded # None /\ Len(buffer) % 2 = 1)
    => /\ ~decoded[1].threw
       /\ Len(decoded[1].channelData) = (Len(buffer) - 1) \div 2
       /\ \A i \in 1..Len(decoded[1].channelData) :
            decoded[1].channelData[i].num = SamplesOf(buffer, (Len(buffer) - 1) \div 2)[i]

\* C22: a buffer of an even number n of bytes decodes to exactly n/2 samples,
\* each equal to its 16-bit value s divided by 32768 and within [-1, 1].
C22_SamplesInUnitRange ==
  (decoded # None /\ Len(buffer) % 2 = 0)
    => /\ ~decoded[1].threw
       /\ Len(decoded[1].channelData) = Len(buffer) \div 2
       /\ \A i \in 1..Len(decoded[1].channelData) :
            LET x == decoded[1].channelData[i]
            IN /\ x.num = SamplesOf(buffer, Len(buffer) \div 2)[i]
               /\ x.num \in -32768..32767
               /\ x.den = 32768
               /\ -x.den <= x.num /\ x.num <= x.den

C22_Witness ==
  /\ decoded # None
  /\ Len(buffer) = 2
  /\ ~decoded[1].threw
  /\ decoded[1].channelData[1].num = -32768

====
